---- MODULE Spec2Model ----
(***************************************************************************)
(* A model of the vrp solver's decomposition mutation                      *)
(* (vrp-core/src/solver/mutation/decompose_search.rs) and of the seeding   *)
(* of the evolution simulator (vrp-core/src/solver/evolution/mod.rs).      *)
(*                                                                         *)
(* Conventions.                                                            *)
(*  - Option<T> is a sequence of length at most one: None is <<>>,         *)
(*    Some(x) is <<x>>.                                                    *)
(*  - A Vec is a sequence; a route index idx of the code (0-based) is the  *)
(*    element idx + 1 of the sequence.                                     *)
(*  - An individual is a record                                            *)
(*      [routes, required, ignored, unassigned, locked, registry, random]  *)
(*    a route is [actor, tour] (tour: the jobs served, in order), the      *)
(*    registry is [all, used] (sets of actors) and random is the identity  *)
(*    of the shared randomness object (Arc<dyn Random>).  The derived      *)
(*    `state` maps are not modelled.                                       *)
(***************************************************************************)
EXTENDS Integers, Sequences, FiniteSets, TLC

VARIABLES
    build,          \* "debug" or "release": whether debug_assert! is evaluated
    repeat_count,   \* DecomposeSearch.repeat_count
    inner_mutation, \* the behaviour of DecomposeSearch.inner_mutation
    improves,       \* whether the objective ranks a mutated individual first
    transport,      \* problem.transport: distance between two locations
    ranked,         \* refinement_ctx.population.ranked().next(), an Option
    insertion_ctx,  \* the individual mutate_one is called with
    refinement_quota, \* refinement_ctx.quota, cloned into every decomposed context:
                    \* "absent" or "reached"
    pc,             \* position of mutate_one: "start", "refine", "done"
    contexts,       \* the decomposed contexts, each [population, iter, finished]
    result,         \* the individual mutate_one returns, an Option
    path,           \* "none", "fallback" or "decomposed"
    handed,         \* the individual handed to the fallback inner mutation, an Option
    created,        \* what create_multiple_individuals built: Some([groups, individuals])
    rnd             \* state of every randomness object: number of draws taken

VARIABLES
    methods,        \* config.population.initial.methods: how many (builder, weight) pairs
    variation,      \* config.population.variation is Some
    initial_size,   \* config.population.initial.size
    provided,       \* config.population.initial.individuals: how many the caller gave
    quota,          \* config.quota: "absent", "unreached" or "reached"
    spc,            \* position of the simulator
    population,     \* refinement_ctx.population: the individuals added, in order
    next_idx,       \* index of the next provided individual / the next builder run
    built,          \* the builder has run for next_idx and its individual awaits the offer
    builder_runs,   \* how often an initial builder was run
    events          \* the calls made on telemetry, population, termination and
                    \* the builders, in order: records [kind, idx]

VARIABLES
    route_locations, \* get_medoid: the locations of the route's activities, in tour order
    distance_matrix, \* get_medoid: transport.distance under the vehicle's profile
    medoid,          \* get_medoid: the returned Option
    mpc              \* position of the call of get_medoid

mvars == <<route_locations, distance_matrix, medoid, mpc>>

VARIABLES
    api_problem,    \* what get_problem_properties reads of the ApiProblem
    matrices,       \* the routing matrices: records [distances, error_codes]
    locks,          \* the locks read from the problem (their number)
    limits,         \* read_limits(api_problem) is Some
    props,          \* the ProblemProperties, an Option
    constraint,     \* the ConstraintPipeline: its modules, in order
    job_result,     \* what became of the job offered to the pipeline, an Option
    rpc             \* position of map_to_problem

rvars == <<api_problem, matrices, locks, limits, props, constraint, job_result, rpc>>

VARIABLES
    plan_tour,      \* the jobs of the relation, in the order the vehicle visits them
    job_duration,   \* the service time of a delivery
    break_duration, \* vehicle_break.duration
    stops,          \* the stops of the tour so far: records [name, arrival, departure]
    statistic,      \* the statistic of the tour so far
    tpc             \* position of the vehicle: "driving" or "arrived"

tvars == <<plan_tour, job_duration, break_duration, stops, statistic, tpc>>

pvars == <<mvars, rvars, tvars>>

svars == <<methods, variation, initial_size, provided, quota, spc, population,
           next_idx, built, builder_runs, events>>

dvars == <<build, repeat_count, inner_mutation, improves, transport, ranked,
           insertion_ctx, refinement_quota, pc, contexts, result, path, handed, created, rnd>>

-----------------------------------------------------------------------------
(* Bounds of the model.                                                    *)

MaxRoutes == 4
MaxRepeat == 2
MaxInitialSize == 4
MaxIndividuals == 4
MaxStops == 3
MaxDistance == 3
MaxMatrices == 2
MaxServiceTime == 2

(* Program constants.                                                      *)

MAX_ROUTES_PER_INDIVIDUAL == 3
REACHABLE_CODE == 11

-----------------------------------------------------------------------------
(* Generic helpers.                                                        *)

None == <<>>
Some(x) == <<x>>
Unwrap(option) == Head(option)

Max(a, b) == IF a >= b THEN a ELSE b
Min(a, b) == IF a <= b THEN a ELSE b

Range(s) == {s[i] : i \in DOMAIN s}

Take(s, k) == SubSeq(s, 1, Min(k, Len(s)))

RECURSIVE Sum(_, _)
Sum(f, S) == IF S = {} THEN 0
             ELSE LET x == CHOOSE y \in S : TRUE IN f[x] + Sum(f, S \ {x})

RECURSIVE SetToSeq(_)
SetToSeq(S) == IF S = {} THEN <<>>
               ELSE LET m == CHOOSE x \in S : \A y \in S : x <= y
                    IN <<m>> \o SetToSeq(S \ {m})

RECURSIVE Flatten(_)
Flatten(ss) == IF Len(ss) = 0 THEN <<>> ELSE Head(ss) \o Flatten(Tail(ss))

Count(s, x) == Cardinality({i \in DOMAIN s : s[i] = x})

-----------------------------------------------------------------------------
(* The problem: fleet, jobs and their locations.                           *)
(* Actor a starts at location a (open tours: no end place); route idx of   *)
(* a source individual is driven by actor idx.  There is one actor more    *)
(* than the largest number of routes, so that a spare actor stays          *)
(* available in the registry.                                              *)

Actors == 0 .. MaxRoutes
Locations == 0 .. MaxRoutes

JobX == MaxRoutes + 1   \* a second job served by route 0
JobR == MaxRoutes + 2   \* the job a source may hold in `required`
JobU == MaxRoutes + 3   \* the job a source may hold in `unassigned`
JobG == MaxRoutes + 4   \* the job a source may hold in `ignored`

Jobs == 1 .. (MaxRoutes + 4)

StartLoc(actor) == actor
JobLoc(job) == IF job <= MaxRoutes THEN job - 1
               ELSE IF job = JobX THEN 0 ELSE MaxRoutes

(* transport.distance(profile, from, to, departure): every vehicle has     *)
(* profile 0 and distances do not depend on the departure time.  A         *)
(* negative distance stands for an unreachable pair.  The matrix is an     *)
(* input; three shapes are drawn.                                          *)
Abs(x) == IF x < 0 THEN 0 - x ELSE x
TransportKinds == {"line", "chain", "reverse"}
Distance(kind, from, to) ==
    CASE kind = "line"    -> Abs(from - to)
      [] kind = "chain"   -> IF Abs(from - to) <= 1 THEN Abs(from - to) ELSE 0 - 1
      [] kind = "reverse" -> IF from = to THEN 0 ELSE (MaxRoutes + 1) - Abs(from - to)

(* The source individuals: n routes, route idx = [actor idx, tour].        *)
SourceRoute(idx) ==
    [actor |-> idx, tour |-> IF idx = 0 THEN <<1, JobX>> ELSE <<idx + 1>>]

SourceIndividual(n, hasReq, hasUnas, hasIgn) ==
    [routes     |-> [i \in 1 .. n |-> SourceRoute(i - 1)],
     required   |-> IF hasReq THEN <<JobR>> ELSE <<>>,
     ignored    |-> IF hasIgn THEN <<JobG>> ELSE <<>>,
     unassigned |-> IF hasUnas THEN {JobU} ELSE {},
     locked     |-> IF n >= 1 THEN {1} ELSE {},
     registry   |-> [all |-> Actors, used |-> 0 .. (n - 1)],
     random     |-> 0]

SourceIndividuals ==
    {SourceIndividual(n, r, u, g) :
        n \in 0 .. MaxRoutes, r \in BOOLEAN, u \in BOOLEAN, g \in BOOLEAN}

-----------------------------------------------------------------------------
(* Views of an individual.                                                 *)

TourJobs(route) == Range(route.tour)
Served(ind) == UNION {TourJobs(ind.routes[i]) : i \in DOMAIN ind.routes}
ServedSeq(ind) == Flatten([i \in DOMAIN ind.routes |-> ind.routes[i].tour])
RouteActors(ind) == {ind.routes[i].actor : i \in DOMAIN ind.routes}
AllJobs(ind) ==
    Served(ind) \cup Range(ind.required) \cup Range(ind.ignored) \cup ind.unassigned

-----------------------------------------------------------------------------
(* Registry (construction/heuristics, not among the sources): the pool of  *)
(* actors with the ones in use.                                            *)

RegistryNew == [all |-> Actors, used |-> {}]
UseActor(registry, actor) == [registry EXCEPT !.used = @ \cup {actor}]
FreeActor(registry, actor) == [registry EXCEPT !.used = @ \ {actor}]
Available(registry) == registry.all \ registry.used
DeepSlice(registry, keep) ==
    [all |-> registry.all \cap keep, used |-> registry.used \cap keep]

-----------------------------------------------------------------------------
(* metrics.rs: get_medoid.                                                 *)

AllActivityLocations(route) ==
    <<StartLoc(route.actor)>> \o [k \in DOMAIN route.tour |-> JobLoc(route.tour[k])]

(* The body of get_medoid over the collected locations: the location with  *)
(* the least sum of the distances to all locations of the route;           *)
(* distance[from][to] is transport.distance under the vehicle's profile.   *)
MedoidOfLocations(locations, distance) ==
    LET sum == [i \in DOMAIN locations |->
                   Sum([j \in DOMAIN locations |-> distance[locations[i]][locations[j]]],
                       DOMAIN locations)]
    IN  IF Len(locations) = 0 THEN None
        ELSE \* min_by returns the first of several equally minimal elements
             LET best == CHOOSE i \in DOMAIN locations :
                            /\ \A j \in DOMAIN locations : sum[i] <= sum[j]
                            /\ \A j \in 1 .. (i - 1) : sum[j] > sum[i]
             IN Some(locations[best])

get_medoid(route, tr) ==
    MedoidOfLocations(AllActivityLocations(route),
                      [from \in Locations |-> [to \in Locations |-> Distance(tr, from, to)]])

-----------------------------------------------------------------------------
(* decompose_search.rs: create_multiple_individuals.                       *)

(* The distance between the medoids of two routes, negative or missing     *)
(* medoid => None.                                                         *)
MedoidDistance(outer_medoid, inner_medoid, tr) ==
    IF outer_medoid # None /\ inner_medoid # None
    THEN LET distance == Distance(tr, Unwrap(outer_medoid), Unwrap(inner_medoid))
         IN IF distance < 0 THEN None ELSE Some(distance)
    ELSE None

(* Mutant of CompareDistances: an absent distance goes first.              *)
CompareDistances_absent_first(a, b) ==
    IF a # None /\ b # None
    THEN (IF Unwrap(a) < Unwrap(b) THEN "Less"
          ELSE IF Unwrap(a) > Unwrap(b) THEN "Greater" ELSE "Equal")
    ELSE IF a = None /\ b # None THEN "Less"
    ELSE "Greater"

(* The comparator of sort_by, as the sort uses it: a is moved before b     *)
(* only when the comparator answers Less.                                  *)
CompareDistances(a, b) ==
    IF a # None /\ b # None
    THEN (IF Unwrap(a) < Unwrap(b) THEN "Less"
          ELSE IF Unwrap(a) > Unwrap(b) THEN "Greater" ELSE "Equal")
    ELSE IF a # None /\ b = None THEN "Less"
    ELSE "Greater"

(* slice::sort_by: a stable sort; x is inserted behind every element it is *)
(* not Less than.                                                          *)
RECURSIVE InsertSorted(_, _)
InsertSorted(sorted, x) ==
    IF Len(sorted) = 0 THEN <<x>>
    ELSE LET last == sorted[Len(sorted)]
         IN IF CompareDistances(x.distance, last.distance) = "Less"
            THEN InsertSorted(SubSeq(sorted, 1, Len(sorted) - 1), x) \o <<last>>
            ELSE sorted \o <<x>>

RECURSIVE SortByDistance(_)
SortByDistance(s) ==
    IF Len(s) = 0 THEN <<>>
    ELSE InsertSorted(SortByDistance(SubSeq(s, 1, Len(s) - 1)), s[Len(s)])

(* route_groups_distances[outer_idx]: the other routes, nearest first.     *)
RouteDistances(medoids, outer_idx, tr) ==
    LET n == Len(medoids)
        others == SetToSeq((0 .. (n - 1)) \ {outer_idx})
    IN SortByDistance([k \in DOMAIN others |->
           [idx |-> others[k],
            distance |-> MedoidDistance(medoids[outer_idx + 1], medoids[others[k] + 1], tr)]])

(* The greedy grouping.  used_indices is filled by the insert inside       *)
(* debug_assert!, which a build without debug assertions does not          *)
(* evaluate.                                                               *)
UsedAfterGroup(used, group, debug) == IF debug THEN used \cup group ELSE used

(* Mutant of RouteGroup: a route whose distance is absent is not taken.    *)
RouteGroup_reachable_only(route_distances, outer_idx, used) ==
    LET unused == SelectSeq(route_distances,
                            LAMBDA pr : pr.idx \notin used /\ pr.distance # None)
        taken == Take(unused, Max(MAX_ROUTES_PER_INDIVIDUAL - 1, 1))
    IN {taken[k].idx : k \in DOMAIN taken} \cup {outer_idx}

RouteGroup(route_distances, outer_idx, used) ==
    LET unused == SelectSeq(route_distances, LAMBDA pr : pr.idx \notin used)
        taken == Take(unused, Max(MAX_ROUTES_PER_INDIVIDUAL - 1, 1))
    IN {taken[k].idx : k \in DOMAIN taken} \cup {outer_idx}

RECURSIVE GroupsFrom(_, _, _, _)
GroupsFrom(outer_idx, dists, used, debug) ==
    IF outer_idx >= Len(dists) THEN <<>>
    ELSE IF outer_idx \in used THEN GroupsFrom(outer_idx + 1, dists, used, debug)
    ELSE LET group == RouteGroup(dists[outer_idx + 1], outer_idx, used)
         IN <<group>> \o
            GroupsFrom(outer_idx + 1, dists, UsedAfterGroup(used, group, debug), debug)

RouteGroups(individual, tr, debug) ==
    LET medoids == [i \in DOMAIN individual.routes |-> get_medoid(individual.routes[i], tr)]
        dists == [i \in DOMAIN individual.routes |-> RouteDistances(medoids, i - 1, tr)]
    IN GroupsFrom(0, dists, {}, debug)

(* The debug assertion fails (a panic) when an index is inserted into      *)
(* used_indices a second time: a group holds an index of an earlier group. *)
GroupsOverlap(groups) ==
    \E i \in DOMAIN groups : \E j \in DOMAIN groups : i < j /\ groups[i] \cap groups[j] # {}

(* Mutant of create_partial_individual: the last route of the group is     *)
(* not copied.                                                             *)
create_partial_individual_drops_route(individual, route_group) ==
    LET indices == SetToSeq(route_group)
        routes == [k \in 1 .. (Len(indices) - 1) |-> individual.routes[indices[k] + 1]]
        actors == {routes[k].actor : k \in DOMAIN routes}
        jobs == UNION {TourJobs(routes[k]) : k \in DOMAIN routes}
    IN [routes     |-> routes,
        required   |-> <<>>,
        ignored    |-> <<>>,
        unassigned |-> {},
        locked     |-> individual.locked \cap jobs,
        registry   |-> DeepSlice(individual.registry, actors),
        random     |-> individual.random]

(* Mutant of create_partial_individual: the partial keeps the required     *)
(* jobs of the source.                                                     *)
create_partial_individual_keeps_required(individual, route_group) ==
    LET indices == SetToSeq(route_group)
        routes == [k \in DOMAIN indices |-> individual.routes[indices[k] + 1]]
        actors == {routes[k].actor : k \in DOMAIN routes}
        jobs == UNION {TourJobs(routes[k]) : k \in DOMAIN routes}
    IN [routes     |-> routes,
        required   |-> individual.required,
        ignored    |-> <<>>,
        unassigned |-> {},
        locked     |-> individual.locked \cap jobs,
        registry   |-> DeepSlice(individual.registry, actors),
        random     |-> individual.random]

create_partial_individual(individual, route_group) ==
    LET indices == SetToSeq(route_group)
        routes == [k \in DOMAIN indices |-> individual.routes[indices[k] + 1]]
        actors == {routes[k].actor : k \in DOMAIN routes}
        jobs == UNION {TourJobs(routes[k]) : k \in DOMAIN routes}
    IN [routes     |-> routes,
        required   |-> <<>>,
        ignored    |-> <<>>,
        unassigned |-> {},
        locked     |-> individual.locked \cap jobs,
        registry   |-> DeepSlice(individual.registry, actors),
        random     |-> individual.random]

create_empty_individuals(individual) ==
    IF individual.required = <<>> /\ individual.unassigned = {}
    THEN <<>>
    ELSE << [routes     |-> <<>>,
             required   |-> individual.required,
             ignored    |-> individual.ignored,
             unassigned |-> individual.unassigned,
             locked     |-> individual.locked,
             registry   |-> individual.registry,
             random     |-> individual.random] >>

create_multiple_individuals(individual, tr, debug) ==
    IF Len(individual.routes) = 0 THEN None
    ELSE LET groups == RouteGroups(individual, tr, debug)
         IN Some([k \in DOMAIN groups |-> create_partial_individual(individual, groups[k])]
                 \o create_empty_individuals(individual))

(* create_population: a Greedy population holding the individual.          *)
create_population(individual) == <<individual>>

CreateContexts(individuals) ==
    [k \in DOMAIN individuals |->
        [population |-> create_population(individuals[k]), iter |-> 0, finished |-> FALSE]]

(* Mutant of decompose_individual: a single context counts as a            *)
(* decomposition.                                                          *)
decompose_individual_single(individual, tr, debug) ==
    LET individuals == create_multiple_individuals(individual, tr, debug)
    IN IF individuals = None THEN None
       ELSE IF Len(Unwrap(individuals)) >= 1
            THEN Some(CreateContexts(Unwrap(individuals)))
            ELSE None

decompose_individual(individual, tr, debug) ==
    LET individuals == create_multiple_individuals(individual, tr, debug)
    IN IF individuals = None THEN None
       ELSE IF Len(Unwrap(individuals)) > 1
            THEN Some(CreateContexts(Unwrap(individuals)))
            ELSE None

-----------------------------------------------------------------------------
(* The collaborators of DecomposeSearch that are not among the sources.    *)

(* Random: a generator with interior state, shared through its Arc; the    *)
(* state is the number of draws taken, a draw is a bit of a fixed stream.  *)
RandomIds == {0}
Draw(pos) == pos % 2

(* Individual::new(problem, random): an empty individual over a fresh      *)
(* registry.                                                               *)
IndividualNew(random) ==
    [routes |-> <<>>, required |-> <<>>, ignored |-> <<>>, unassigned |-> {},
     locked |-> {}, registry |-> RegistryNew, random |-> random]

(* Greedy: a population of the single best individual.  `better` says      *)
(* whether the objective ranks the added individual first.                 *)
GreedyAdd(greedy, individual, better) ==
    IF better THEN <<individual>> ELSE greedy
GreedyBest(greedy) == Head(greedy)

(* constraint.accept_solution_state recomputes derived state only.         *)
accept_solution_state(individual) == individual

(* The inner mutation: any Mutation.  Its steps keep every job of the      *)
(* individual in exactly one of served, required, ignored, unassigned and  *)
(* take actors from the individual's own registry only.                    *)
LastIndex(routes) == Len(routes)

Ruin(ind) ==
    IF Len(ind.routes) = 0 THEN ind
    ELSE LET r == LastIndex(ind.routes)
             route == ind.routes[r]
             job == route.tour[Len(route.tour)]
             rest == SubSeq(route.tour, 1, Len(route.tour) - 1)
         IN IF Len(rest) = 0
            THEN [ind EXCEPT !.routes = SubSeq(@, 1, r - 1),
                             !.required = Append(@, job),
                             !.registry = FreeActor(@, route.actor)]
            ELSE [ind EXCEPT !.routes[r].tour = rest,
                             !.required = Append(@, job)]

Recreate(ind) ==
    IF Len(ind.required) = 0 THEN ind
    ELSE LET job == Head(ind.required)
         IN IF Len(ind.routes) > 0
            THEN [ind EXCEPT !.routes[1].tour = Append(@, job),
                             !.required = Tail(@)]
            ELSE IF Available(ind.registry) # {}
            THEN LET actor == CHOOSE a \in Available(ind.registry) :
                                 \A b \in Available(ind.registry) : a <= b
                 IN [ind EXCEPT !.routes = <<[actor |-> actor, tour |-> <<job>>]>>,
                                !.required = Tail(@),
                                !.registry = UseActor(@, actor)]
            ELSE [ind EXCEPT !.required = Tail(@),
                             !.unassigned = @ \cup {job}]

Unassign(ind) ==
    IF Len(ind.required) = 0 THEN ind
    ELSE [ind EXCEPT !.required = Tail(@), !.unassigned = @ \cup {Head(ind.required)}]

InnerMutations == {"ruin_recreate", "unassign", "random"}

InnerMutateOne(kind, ind, draw) ==
    CASE kind = "ruin_recreate" -> IF Len(ind.required) = 0 THEN Ruin(ind) ELSE Recreate(ind)
      [] kind = "unassign"      -> Unassign(ind)
      [] kind = "random"        -> IF draw = 0 THEN Ruin(ind) ELSE Recreate(ind)

-----------------------------------------------------------------------------
(* decompose_search.rs: DecomposeSearch::refine_decomposed, the merge.     *)

RECURSIVE UseRoutes(_, _)
UseRoutes(registry, routes) ==
    IF Len(routes) = 0 THEN registry
    ELSE UseRoutes(UseActor(registry, Head(routes).actor), Tail(routes))

(* Mutant of MergeOne: the routes are added without use_route.             *)
MergeOne_no_use_route(individual, decomposed_individual) ==
    [individual EXCEPT
        !.routes     = @ \o decomposed_individual.routes,
        !.ignored    = @ \o decomposed_individual.ignored,
        !.required   = @ \o decomposed_individual.required,
        !.locked     = @ \cup decomposed_individual.locked,
        !.unassigned = @ \cup decomposed_individual.unassigned]

MergeOne(individual, decomposed_individual) ==
    [individual EXCEPT
        !.routes     = @ \o decomposed_individual.routes,
        !.ignored    = @ \o decomposed_individual.ignored,
        !.required   = @ \o decomposed_individual.required,
        !.locked     = @ \cup decomposed_individual.locked,
        !.unassigned = @ \cup decomposed_individual.unassigned,
        !.registry   = UseRoutes(@, decomposed_individual.routes)]

RECURSIVE MergeFold(_, _)
MergeFold(individual, decomposed_populations) ==
    IF Len(decomposed_populations) = 0 THEN individual
    ELSE MergeFold(MergeOne(individual, GreedyBest(Head(decomposed_populations))),
                   Tail(decomposed_populations))

Merged(random, ctxs) ==
    accept_solution_state(
        MergeFold(IndividualNew(random), [k \in DOMAIN ctxs |-> ctxs[k].population]))

-----------------------------------------------------------------------------
(* evolution/mod.rs: EvolutionSimulator.                                   *)

(* The population keeps every individual added to it.                      *)
PopulationAdd(pop, individual) == Append(pop, individual)
PopulationSize(pop) == Len(pop)

(* Mutant of should_add_solution: the empty population is not looked at.   *)
should_add_solution_quota_only(q, pop) ==
    LET is_quota_reached == IF q = "absent" THEN FALSE ELSE q = "reached"
    IN ~is_quota_reached

should_add_solution(q, pop) ==
    LET is_quota_reached == IF q = "absent" THEN FALSE ELSE q = "reached"
        is_population_empty == PopulationSize(pop) = 0
    IN is_population_empty \/ ~is_quota_reached

(* An entry of the call log.                                               *)
Call(kind, idx) == [kind |-> kind, idx |-> idx]

(* How many provided individuals the first loop visits: zip(0..) and       *)
(* take(initial.size).                                                     *)
(* Mutant of ProvidedVisited: without take(initial.size).                  *)
ProvidedVisited_all(given, size) == given

ProvidedVisited(given, size) == Min(given, size)

SIdle ==
    /\ methods = 0 /\ variation = FALSE /\ initial_size = 0 /\ provided = 0
    /\ quota = "absent" /\ spc = "idle" /\ population = <<>> /\ next_idx = 0
    /\ built = FALSE /\ builder_runs = 0 /\ events = <<>>

SStart ==
    /\ methods \in 0 .. 1
    /\ variation \in BOOLEAN
    /\ initial_size \in 0 .. MaxInitialSize
    /\ provided \in 0 .. MaxIndividuals
    /\ quota \in {"absent", "unreached", "reached"}
    /\ spc = "new"
    /\ population = <<>>
    /\ next_idx = 0
    /\ built = FALSE
    /\ builder_runs = 0
    /\ events = <<>>

(* Mutant of SimulatorNew: the list of initial methods is not looked at.   *)
SimulatorNew_never_fails ==
    /\ spc = "new"
    /\ spc' = "created"
    /\ UNCHANGED <<methods, variation, initial_size, provided, quota, population,
                   next_idx, built, builder_runs, events>>
    /\ UNCHANGED <<dvars, pvars>>

(* EvolutionSimulator::new: no initial method is an Err.                   *)
SimulatorNew ==
    /\ spc = "new"
    /\ spc' = IF methods = 0 THEN "err" ELSE "created"
    /\ UNCHANGED <<methods, variation, initial_size, provided, quota, population,
                   next_idx, built, builder_runs, events>>
    /\ UNCHANGED <<dvars, pvars>>

(* run -> create_refinement_ctx: the context is made of the problem, the   *)
(* unwrapped variation and the quota; unwrap panics on None.               *)
CreateRefinementCtx ==
    /\ spc = "created"
    /\ IF variation
       THEN /\ spc' = "provided"
            /\ events' = Append(events, Call("log_problem", 0))
       ELSE /\ spc' = "panic"
            /\ UNCHANGED events
    /\ UNCHANGED <<methods, variation, initial_size, provided, quota, population,
                   next_idx, built, builder_runs>>
    /\ UNCHANGED <<dvars, pvars>>

(* One turn of the loop over the provided individuals.                     *)
OfferProvided ==
    /\ spc = "provided"
    /\ next_idx < ProvidedVisited(provided, initial_size)
    /\ IF should_add_solution(quota, population)
       THEN /\ events' = events \o <<Call("on_initial", next_idx),
                                      Call("add_provided", next_idx)>>
            /\ population' = PopulationAdd(population, [origin |-> "provided", idx |-> next_idx])
       ELSE /\ events' = Append(events, Call("skip_provided", next_idx))
            /\ UNCHANGED population
    /\ next_idx' = next_idx + 1
    /\ UNCHANGED <<methods, variation, initial_size, provided, quota, spc,
                   built, builder_runs>>
    /\ UNCHANGED <<dvars, pvars>>

(* The provided individuals are through: the builder loop starts at        *)
(* population.size().                                                      *)
StartBuilders ==
    /\ spc = "provided"
    /\ next_idx >= ProvidedVisited(provided, initial_size)
    /\ spc' = "builders"
    /\ next_idx' = PopulationSize(population)
    /\ UNCHANGED <<methods, variation, initial_size, provided, quota, population,
                   built, builder_runs, events>>
    /\ UNCHANGED <<dvars, pvars>>

(* A turn of the builder loop up to the builder's return: is_termination   *)
(* answered false and the builder ran on a copy of the empty context.      *)
RunBuilder ==
    /\ spc = "builders"
    /\ next_idx < initial_size
    /\ ~built
    /\ built' = TRUE
    /\ builder_runs' = builder_runs + 1
    /\ events' = events \o <<Call("is_termination", 0), Call("weighted", next_idx),
                              Call("deep_copy", next_idx), Call("builder_run", next_idx)>>
    /\ UNCHANGED <<methods, variation, initial_size, provided, quota, spc, population,
                   next_idx>>
    /\ UNCHANGED <<dvars, pvars>>

(* is_termination answered true: try_for_each stops.                       *)
TerminateBuilders ==
    /\ spc = "builders"
    /\ next_idx < initial_size
    /\ ~built
    /\ spc' = "seeded"
    /\ events' = Append(events, Call("is_termination", 1))
    /\ UNCHANGED <<methods, variation, initial_size, provided, quota, population,
                   next_idx, built, builder_runs>>
    /\ UNCHANGED <<dvars, pvars>>

(* The rest of the turn: the built individual is added or skipped.         *)
OfferBuilt ==
    /\ spc = "builders"
    /\ built
    /\ IF should_add_solution(quota, population)
       THEN /\ population' = PopulationAdd(population, [origin |-> "built", idx |-> next_idx])
            /\ events' = events \o <<Call("add_built", next_idx),
                                      Call("on_initial", next_idx)>>
       ELSE /\ events' = Append(events, Call("skip_built", next_idx))
            /\ UNCHANGED population
    /\ built' = FALSE
    /\ next_idx' = next_idx + 1
    /\ UNCHANGED <<methods, variation, initial_size, provided, quota, spc, builder_runs>>
    /\ UNCHANGED <<dvars, pvars>>

(* The range of the builder loop is used up.                               *)
BuildersDone ==
    /\ spc = "builders"
    /\ next_idx >= initial_size
    /\ ~built
    /\ spc' = "seeded"
    /\ UNCHANGED <<methods, variation, initial_size, provided, quota, population,
                   next_idx, built, builder_runs, events>>
    /\ UNCHANGED <<dvars, pvars>>

(* on_generation: the estimate of the termination, then the telemetry and  *)
(* the population are told; idx 1 stands for is_improved = true.           *)
on_generation(is_improved) ==
    <<Call("estimate", 0),
      Call("telemetry_on_generation", IF is_improved THEN 1 ELSE 0),
      Call("population_on_generation", 0)>>

(* Mutant of on_generation_or_log: the size of the population is not       *)
(* looked at.                                                              *)
on_generation_or_log_always(pop) == on_generation(TRUE)

on_generation_or_log(pop) ==
    IF PopulationSize(pop) > 0 THEN on_generation(TRUE) ELSE <<Call("log_empty", 0)>>

(* The end of create_refinement_ctx: the on-generation event of a          *)
(* population that is not empty, a log line otherwise.                     *)
SeedingEvent ==
    /\ spc = "seeded"
    /\ events' = events \o on_generation_or_log(population)
    /\ spc' = "strategy"
    /\ UNCHANGED <<methods, variation, initial_size, provided, quota, population,
                   next_idx, built, builder_runs>>
    /\ UNCHANGED <<dvars, pvars>>

(* The environment: the quota becomes reached while the simulator seeds.   *)
QuotaReached ==
    /\ quota = "unreached"
    /\ spc \in {"provided", "builders"}
    /\ quota' = "reached"
    /\ UNCHANGED <<methods, variation, initial_size, provided, spc, population,
                   next_idx, built, builder_runs, events>>
    /\ UNCHANGED <<dvars, pvars>>

SNext ==
    \/ SimulatorNew \/ CreateRefinementCtx \/ OfferProvided \/ StartBuilders
    \/ RunBuilder \/ TerminateBuilders \/ OfferBuilt \/ BuildersDone
    \/ SeedingEvent \/ QuotaReached

-----------------------------------------------------------------------------
(* DecomposeSearch::mutate_one as a process.                               *)

OtherIndividual == SourceIndividual(1, TRUE, FALSE, FALSE)

DStart ==
    /\ build \in {"debug", "release"}
    /\ repeat_count \in 0 .. MaxRepeat
    /\ inner_mutation \in InnerMutations
    /\ improves \in BOOLEAN
    /\ transport \in TransportKinds
    /\ ranked \in {None} \cup {Some(s) : s \in SourceIndividuals}
    /\ insertion_ctx \in {OtherIndividual} \cup Range(ranked)
    /\ refinement_quota \in {"absent", "reached"}
    /\ pc = "start"
    /\ contexts = <<>>
    /\ result = None
    /\ path = "none"
    /\ handed = None
    /\ created = None
    /\ rnd = [id \in RandomIds |-> 0]

(* The route groups and the individuals create_multiple_individuals made   *)
(* of the top ranked individual, kept for inspection.                      *)
Created ==
    IF ranked = None \/ Len(Unwrap(ranked).routes) = 0 THEN None
    ELSE Some([groups |-> RouteGroups(Unwrap(ranked), transport, build = "debug"),
               individuals |-> Unwrap(create_multiple_individuals(
                                   Unwrap(ranked), transport, build = "debug"))])

Decomposed ==
    IF ranked = None THEN None
    ELSE decompose_individual(Unwrap(ranked), transport, build = "debug")

(* mutate_one, decomposition succeeded: the contexts are handed to         *)
(* refine_decomposed.  A failing debug assertion panics.                   *)
MutateOneDecompose ==
    /\ pc = "start"
    /\ Decomposed # None
    /\ IF build = "debug" /\ GroupsOverlap(RouteGroups(Unwrap(ranked), transport, TRUE))
       THEN /\ pc' = "panic"
            /\ UNCHANGED <<contexts, path, created>>
       ELSE /\ pc' = "refine"
            /\ contexts' = Unwrap(Decomposed)
            /\ path' = "decomposed"
            /\ created' = Created
    /\ UNCHANGED <<svars, pvars>>
    /\ UNCHANGED <<build, repeat_count, inner_mutation, improves, transport, ranked,
                   insertion_ctx, refinement_quota,
                   result, handed, rnd>>

(* Mutant of MutateOneFallback: the inner mutation gets the top ranked     *)
(* individual whenever there is one.                                       *)
MutateOneFallback_on_ranked ==
    /\ pc = "start"
    /\ Decomposed = None
    /\ LET individual == IF ranked = None THEN insertion_ctx ELSE Unwrap(ranked)
       IN /\ result' = Some(InnerMutateOne(inner_mutation, individual,
                                           Draw(rnd[individual.random])))
          /\ rnd' = [rnd EXCEPT ![individual.random] = @ + 1]
          /\ handed' = Some(individual)
    /\ created' = Created
    /\ path' = "fallback"
    /\ pc' = "done"
    /\ UNCHANGED <<svars, pvars>>
    /\ UNCHANGED <<build, repeat_count, inner_mutation, improves, transport, ranked,
                   insertion_ctx, refinement_quota,
                   contexts>>

(* mutate_one, no decomposition: the inner mutation on insertion_ctx, the  *)
(* individual mutate_one was called with (the top ranked one or another).  *)
MutateOneFallback ==
    /\ pc = "start"
    /\ Decomposed = None
    /\ result' = Some(InnerMutateOne(inner_mutation, insertion_ctx,
                                     Draw(rnd[insertion_ctx.random])))
    /\ rnd' = [rnd EXCEPT ![insertion_ctx.random] = @ + 1]
    /\ handed' = Some(insertion_ctx)
    /\ created' = Created
    /\ path' = "fallback"
    /\ pc' = "done"
    /\ UNCHANGED <<svars, pvars>>
    /\ UNCHANGED <<build, repeat_count, inner_mutation, improves, transport, ranked,
                   insertion_ctx, refinement_quota,
                   contexts>>

(* One iteration of a worker: select, mutate, add.  `w` is the worker's    *)
(* view [population, iter, pos]: its population, the iterations done and   *)
(* the state of the randomness object its individuals hold.                *)
RefineIteration(w, mutation, better) ==
    LET selected == GreedyBest(w.population)
        mutated == InnerMutateOne(mutation, selected, Draw(w.pos))
    IN [population |-> GreedyAdd(w.population, mutated, better),
        iter       |-> w.iter + 1,
        pos        |-> w.pos + 1]

(* Mutant of RefineLoop: the loop ends when the quota is reached.          *)
RECURSIVE RefineLoop_until_quota(_, _, _, _)
RefineLoop_until_quota(w, count, mutation, better) ==
    IF count = 0 \/ refinement_quota = "reached" THEN w
    ELSE RefineLoop_until_quota(RefineIteration(w, mutation, better), count - 1,
                                mutation, better)

(* (0..repeat_count).for_each: the quota of the context is not read.       *)
RECURSIVE RefineLoop(_, _, _, _)
RefineLoop(w, count, mutation, better) ==
    IF count = 0 THEN w
    ELSE RefineLoop(RefineIteration(w, mutation, better), count - 1, mutation, better)

(* The worker of partition p: the closure given to parallel_into_collect.  *)
(* The workers run in parallel and share nothing but the randomness object *)
(* of their individuals; a worker's loop is taken as one step, the workers *)
(* in any order.                                                           *)
RefineWorker(p) ==
    /\ pc = "refine"
    /\ ~contexts[p].finished
    /\ LET random == GreedyBest(contexts[p].population).random
           w == RefineLoop([population |-> contexts[p].population,
                            iter |-> contexts[p].iter,
                            pos |-> rnd[random]],
                           repeat_count, inner_mutation, improves)
       IN /\ contexts' = [contexts EXCEPT ![p] =
                 [population |-> w.population, iter |-> w.iter, finished |-> TRUE]]
          /\ rnd' = [rnd EXCEPT ![random] = w.pos]
    /\ UNCHANGED <<svars, pvars>>
    /\ UNCHANGED <<build, repeat_count, inner_mutation, improves, transport, ranked,
                   insertion_ctx, refinement_quota,
                   pc, result, path, handed, created>>

Refine == \E p \in DOMAIN contexts : RefineWorker(p)

(* The fold over the collected populations, once every worker is done.     *)
Merge ==
    /\ pc = "refine"
    /\ \A p \in DOMAIN contexts : contexts[p].finished
    /\ result' = Some(Merged(Unwrap(ranked).random, contexts))
    /\ pc' = "done"
    /\ UNCHANGED <<svars, pvars>>
    /\ UNCHANGED <<build, repeat_count, inner_mutation, improves, transport, ranked,
                   insertion_ctx, refinement_quota,
                   contexts, path, handed, created, rnd>>

DNext == MutateOneDecompose \/ MutateOneFallback \/ Refine \/ Merge

DIdle ==
    /\ build = "debug" /\ repeat_count = 0 /\ inner_mutation = "random" /\ improves = FALSE
    /\ transport = "line" /\ ranked = None /\ insertion_ctx = OtherIndividual
    /\ refinement_quota = "absent"
    /\ pc = "idle" /\ contexts = <<>>
    /\ result = None /\ path = "none" /\ handed = None /\ created = None
    /\ rnd = [id \in RandomIds |-> 0]

-----------------------------------------------------------------------------
(* metrics.rs: a call of get_medoid on a route and a transport of any      *)
(* distances.  The route is given by the locations of its activities; a    *)
(* distance is one of: unreachable (negative), near, far.                  *)

StopLocations == 0 .. 2
Distances == {1 - MaxDistance, 1, MaxDistance}

RECURSIVE SeqsUpTo(_, _)
SeqsUpTo(S, n) ==
    IF n = 0 THEN {<<>>}
    ELSE LET shorter == SeqsUpTo(S, n - 1)
         IN shorter \cup {Append(q, x) : q \in {r \in shorter : Len(r) = n - 1}, x \in S}

OffDiagonal == {pair \in StopLocations \X StopLocations : pair[1] # pair[2]}

DistanceMatrices ==
    {[a \in StopLocations |-> [b \in StopLocations |-> IF a = b THEN 0 ELSE f[<<a, b>>]]] :
        f \in [OffDiagonal -> Distances]}

MIdle ==
    /\ route_locations = <<>>
    /\ distance_matrix = [a \in StopLocations |-> [b \in StopLocations |-> 0]]
    /\ medoid = None
    /\ mpc = "idle"

MStart ==
    /\ route_locations \in SeqsUpTo(StopLocations, MaxStops)
    /\ distance_matrix \in DistanceMatrices
    /\ medoid = None
    /\ mpc = "call"

GetMedoid ==
    /\ mpc = "call"
    /\ medoid' = MedoidOfLocations(route_locations, distance_matrix)
    /\ mpc' = "returned"
    /\ UNCHANGED <<route_locations, distance_matrix>>
    /\ UNCHANGED <<dvars, svars, rvars, tvars>>

-----------------------------------------------------------------------------
(* vrp-pragmatic reader.rs: get_problem_properties and                     *)
(* create_constraint_pipeline.  Of the ApiProblem only the facts the       *)
(* properties are computed from are kept.  A matrix is over the two        *)
(* locations X (index 0, the vehicle's start) and Y (index 1, the job),    *)
(* row by row; an unreachable pair has a negative distance.                *)

MatrixDistances == {<<0, d, d, 0>> : d \in {0 - 1, 1}}
MatrixErrorCodes == {None} \cup {Some(<<0, c, c, 0>>) : c \in {0, 1}}
Matrices == [distances : MatrixDistances, error_codes : MatrixErrorCodes]

ApiProblems ==
    [multi_dimen : BOOLEAN, breaks : BOOLEAN, skills : BOOLEAN,
     fixed_cost : BOOLEAN, reloads : BOOLEAN, even_dist : BOOLEAN]

get_problem_properties(api, ms) ==
    [has_unreachable_locations |-> \E k \in DOMAIN ms : ms[k].error_codes # None,
     has_multi_dimen_capacity  |-> api.multi_dimen,
     has_breaks                |-> api.breaks,
     has_skills                |-> api.skills,
     has_fixed_cost            |-> api.fixed_cost,
     has_reload                |-> api.reloads,
     even_dist                 |-> IF api.even_dist THEN Some(1) ELSE None]

Module(name, code) == [name |-> name, code |-> code]

add_capacity_module(p) ==
    IF p.has_reload
    THEN (IF p.has_multi_dimen_capacity THEN <<Module("reload_capacity_multi", 2)>>
          ELSE <<Module("reload_capacity", 2)>>)
    ELSE (IF p.has_multi_dimen_capacity THEN <<Module("capacity_multi", 2)>>
          ELSE <<Module("capacity", 2)>>)

add_even_dist_module(p) ==
    IF p.even_dist # None
    THEN (IF p.has_multi_dimen_capacity THEN <<Module("even_distribution_multi", 0)>>
          ELSE <<Module("even_distribution", 0)>>)
    ELSE <<>>

create_constraint_pipeline(p, lock_count, has_limits) ==
    <<Module("transport", 1)>>
    \o add_capacity_module(p)
    \o add_even_dist_module(p)
    \o (IF p.has_breaks THEN <<Module("break", 4)>> ELSE <<>>)
    \o (IF p.has_skills THEN <<Module("skills", 10)>> ELSE <<>>)
    \o (IF lock_count # 0 THEN <<Module("strict_locking", 3)>> ELSE <<>>)
    \o (IF has_limits THEN <<Module("travel", 5)>> ELSE <<>>)
    \o (IF p.has_unreachable_locations THEN <<Module("reachable", REACHABLE_CODE)>> ELSE <<>>)
    \o (IF p.has_fixed_cost THEN <<Module("extra_cost", 0)>> ELSE <<>>)

(* The parts of the engine that are not among the sources: the transport   *)
(* made of the matrices (profile 0 is the first matrix) and the reachable   *)
(* module, which rejects with its code an activity at a location of        *)
(* negative distance from the route.                                       *)
MatrixDistance(ms, from, to) == ms[1].distances[from * 2 + to + 1]

HasModule(pipeline, name) == \E k \in DOMAIN pipeline : pipeline[k].name = name

EvaluateJob(pipeline, ms) ==
    IF HasModule(pipeline, "reachable") /\ MatrixDistance(ms, 0, 1) < 0
    THEN [served |-> FALSE, code |-> REACHABLE_CODE]
    ELSE [served |-> TRUE, code |-> 0]

RIdle ==
    /\ api_problem = [multi_dimen |-> FALSE, breaks |-> FALSE, skills |-> FALSE,
                      fixed_cost |-> FALSE, reloads |-> FALSE, even_dist |-> FALSE]
    /\ matrices = <<>>
    /\ locks = 0
    /\ limits = FALSE
    /\ props = None
    /\ constraint = <<>>
    /\ job_result = None
    /\ rpc = "idle"

RStart ==
    /\ api_problem \in ApiProblems
    /\ matrices \in SeqsUpTo(Matrices, MaxMatrices) \ {<<>>}
    /\ locks \in 0 .. 1
    /\ limits \in BOOLEAN
    /\ props = None
    /\ constraint = <<>>
    /\ job_result = None
    /\ rpc = "map_to_problem"

(* map_to_problem: the properties of the problem.                          *)
GetProblemProperties ==
    /\ rpc = "map_to_problem"
    /\ props' = Some(get_problem_properties(api_problem, matrices))
    /\ rpc' = "properties"
    /\ UNCHANGED <<api_problem, matrices, locks, limits, constraint, job_result>>
    /\ UNCHANGED <<dvars, svars, mvars, tvars>>

(* map_to_problem: the pipeline of the problem.                            *)
CreateConstraintPipeline ==
    /\ rpc = "properties"
    /\ constraint' = create_constraint_pipeline(Unwrap(props), locks, limits)
    /\ rpc' = "problem"
    /\ UNCHANGED <<api_problem, matrices, locks, limits, props, job_result>>
    /\ UNCHANGED <<dvars, svars, mvars, tvars>>

(* The solver offers the job at Y to the route that starts at X.           *)
InsertJob ==
    /\ rpc = "problem"
    /\ job_result' = Some(EvaluateJob(constraint, matrices))
    /\ rpc' = "solved"
    /\ UNCHANGED <<api_problem, matrices, locks, limits, props, constraint>>
    /\ UNCHANGED <<dvars, svars, mvars, tvars>>

-----------------------------------------------------------------------------
(* here/tests relation_break_test.rs: the problem of the test, one vehicle *)
(* with a break and a relation over job1, break, job2, and the tour the    *)
(* vehicle drives for it.  The locations are indexed in the order the      *)
(* problem names them: the jobs, the vehicle's place, the break.           *)

LocationIndex(name) ==
    CASE name = "job1"  -> 0
      [] name = "job2"  -> 1
      [] name = "break" -> 3
      [] OTHER          -> 2    \* departure and arrival: the vehicle's place

travel_times == <<0, 1, 1, 2,  1, 0, 2, 1,  1, 2, 0, 3,  2, 1, 3, 0>>
distances    == <<0, 1, 1, 2,  1, 0, 2, 1,  1, 2, 0, 3,  2, 1, 3, 0>>

MatrixEntry(entries, from, to) == entries[LocationIndex(from) * 4 + LocationIndex(to) + 1]

(* The solution the test expects.                                          *)
Stop(name, arrival, departure) == [name |-> name, arrival |-> arrival, departure |-> departure]

ExpectedStops ==
    <<Stop("departure", 0, 0), Stop("job1", 1, 2), Stop("break", 3, 5),
      Stop("job2", 6, 7), Stop("arrival", 9, 9)>>

ExpectedStatistic ==
    [cost |-> 26, distance |-> 6, duration |-> 10,
     driving |-> 6, serving |-> 2, waiting |-> 0, break_time |-> 2]

(* The solver and the writer of the solution are not among the sources:    *)
(* the vehicle leaves at 0, drives the travel time of the matrix to the    *)
(* next stop and stays there for the service time or the break; the cost   *)
(* is the fixed cost with the distance and the duration at the vehicle's   *)
(* rates.                                                                  *)
VehicleCosts == [fixed |-> 10, distance |-> 1, time |-> 1]

StayAt(name, job_time, break_time) ==
    CASE name = "break" -> break_time
      [] name \in {"job1", "job2"} -> job_time
      [] OTHER -> 0

Drive(visited, stat, name, job_time, break_time) ==
    LET last == visited[Len(visited)]
        travel == MatrixEntry(travel_times, last.name, name)
        arrival == last.departure + travel
        stay == StayAt(name, job_time, break_time)
        driven == [stat EXCEPT
                      !.distance = @ + MatrixEntry(distances, last.name, name),
                      !.driving = @ + travel,
                      !.serving = @ + (IF name = "break" THEN 0 ELSE stay),
                      !.break_time = @ + (IF name = "break" THEN stay ELSE 0),
                      !.duration = (arrival + stay) - visited[1].departure]
    IN [stops |-> Append(visited, Stop(name, arrival, arrival + stay)),
        statistic |-> [driven EXCEPT
                          !.cost = VehicleCosts.fixed
                                   + VehicleCosts.distance * driven.distance
                                   + VehicleCosts.time * driven.duration]]

Tours ==
    {t \in SeqsUpTo({"job1", "break", "job2"}, 3) :
        \A i \in DOMAIN t : \A j \in DOMAIN t : t[i] = t[j] => i = j}

TIdle ==
    /\ plan_tour = <<>> /\ job_duration = 0 /\ break_duration = 0
    /\ stops = <<>>
    /\ statistic = [cost |-> 0, distance |-> 0, duration |-> 0,
                    driving |-> 0, serving |-> 0, waiting |-> 0, break_time |-> 0]
    /\ tpc = "idle"

TStart ==
    /\ plan_tour \in Tours
    /\ job_duration \in 1 .. MaxServiceTime
    /\ break_duration \in 1 .. MaxServiceTime
    /\ stops = <<Stop("departure", 0, 0)>>
    /\ statistic = [cost |-> VehicleCosts.fixed, distance |-> 0, duration |-> 0,
                    driving |-> 0, serving |-> 0, waiting |-> 0, break_time |-> 0]
    /\ tpc = "driving"

(* The vehicle drives to the next job or to its break.                     *)
VisitStop ==
    /\ tpc = "driving"
    /\ Len(stops) <= Len(plan_tour)
    /\ LET next == Drive(stops, statistic, plan_tour[Len(stops)], job_duration, break_duration)
       IN stops' = next.stops /\ statistic' = next.statistic
    /\ UNCHANGED <<plan_tour, job_duration, break_duration, tpc>>
    /\ UNCHANGED <<dvars, svars, mvars, rvars>>

(* The vehicle drives back to its place.                                   *)
Arrive ==
    /\ tpc = "driving"
    /\ Len(stops) > Len(plan_tour)
    /\ LET next == Drive(stops, statistic, "arrival", job_duration, break_duration)
       IN stops' = next.stops /\ statistic' = next.statistic
    /\ tpc' = "arrived"
    /\ UNCHANGED <<plan_tour, job_duration, break_duration>>
    /\ UNCHANGED <<dvars, svars, mvars, rvars>>

PIdle == MIdle /\ RIdle /\ TIdle

vars == <<dvars, svars, pvars>>

(* DecomposeSearch::mutate_one.                                            *)
Init == DStart /\ SIdle /\ PIdle
Next == DNext
Spec == Init /\ [][Next]_vars

(* The seeding of EvolutionSimulator::run.                                 *)
SeedInit == SStart /\ DIdle /\ PIdle
SpecSeed == SeedInit /\ [][SNext]_vars

(* A call of get_medoid.                                                   *)
MedoidInit == MStart /\ RIdle /\ TIdle /\ DIdle /\ SIdle
MedoidNext == GetMedoid
SpecMedoid == MedoidInit /\ [][MedoidNext]_vars

(* Reading a problem: map_to_problem and the first use of its pipeline.    *)
ReadInit == RStart /\ MIdle /\ TIdle /\ DIdle /\ SIdle
ReadNext == GetProblemProperties \/ CreateConstraintPipeline \/ InsertJob
SpecRead == ReadInit /\ [][ReadNext]_vars

(* The tour of a vehicle over the jobs of a relation.                      *)
TourInit == TStart /\ MIdle /\ RIdle /\ DIdle /\ SIdle
TourNext == VisitStop \/ Arrive
SpecTour == TourInit /\ [][TourNext]_vars

-----------------------------------------------------------------------------
(* Properties of DecomposeSearch.                                          *)

Source == Unwrap(ranked)
Returned == Unwrap(result)
MergeDone == pc = "done" /\ path = "decomposed"

NoDuplicates(seq) == \A i \in DOMAIN seq : \A j \in DOMAIN seq : seq[i] = seq[j] => i = j

(* The four job collections of `ind` are pairwise disjoint, hold no job    *)
(* twice and together hold the jobs of `src`.                              *)
JobsConserved(src, ind) ==
    /\ NoDuplicates(ServedSeq(ind) \o ind.required \o ind.ignored \o SetToSeq(ind.unassigned))
    /\ AllJobs(ind) = AllJobs(src)

(* C1: job conservation.  With debug assertions evaluated, the individual  *)
(* returned through decompose -> refine -> merge holds every job of the    *)
(* source in exactly one of served, required, ignored, unassigned.         *)
C1_JobConservation ==
    (MergeDone /\ build = "debug") => JobsConserved(Source, Returned)

(* C2: grouping partition.  After the greedy grouping every route index in *)
(* [0, n) is in exactly one route group, in either build.                  *)
IsPartition(groups, n) ==
    \A idx \in 0 .. (n - 1) :
        Cardinality({k \in DOMAIN groups : idx \in groups[k]}) = 1

C2_GroupingPartition ==
    created # None => IsPartition(Unwrap(created).groups, Len(Source.routes))

(* C3: merge idempotence.  Decomposing and merging with repeat_count = 0   *)
(* gives an individual with the served jobs of the source and, for every   *)
(* actor, the tours the actor has in the source.                           *)
RouteSet(ind) == {ind.routes[i] : i \in DOMAIN ind.routes}

C3_MergeIdempotence ==
    (MergeDone /\ repeat_count = 0) =>
        /\ Served(Returned) = Served(Source)
        /\ RouteSet(Returned) = RouteSet(Source)

C3_Witness ==
    /\ MergeDone /\ repeat_count = 0 /\ build = "debug"
    /\ Len(contexts) = 3
    /\ Len(Source.routes) = 4

(* C4: merged registry.  After the merge the actors marked used in the     *)
(* merged registry are exactly the actors of the routes of the ranked      *)
(* first individuals of the partitions.                                    *)
PartitionActors ==
    UNION {RouteActors(GreedyBest(contexts[p].population)) : p \in DOMAIN contexts}

C4_MergedRegistry ==
    MergeDone =>
        /\ \A p \in DOMAIN contexts :
              \A a \in RouteActors(GreedyBest(contexts[p].population)) :
                  a \in Returned.registry.used
        /\ Returned.registry.used \subseteq PartitionActors
        /\ Returned.registry.all = Actors

(* the merge of a run whose inner mutation opened a route for an actor the *)
(* source did not use and closed a route of the source                     *)
C4_Witness ==
    /\ MergeDone
    /\ Returned.registry.used \ Source.registry.used # {}
    /\ Source.registry.used \ Returned.registry.used # {}

(* C5: partition isolation.  The merged individual is the same for every   *)
(* order in which the partition workers run: it is the one obtained when   *)
(* the workers run one after the other in the order of the partitions.     *)
RECURSIVE SequentialRefine(_, _, _, _, _)
SequentialRefine(ctxs, pos, count, mutation, better) ==
    IF Len(ctxs) = 0 THEN <<>>
    ELSE LET w == RefineLoop([population |-> Head(ctxs).population, iter |-> 0, pos |-> pos],
                             count, mutation, better)
         IN <<[population |-> w.population, iter |-> w.iter, finished |-> TRUE]>>
            \o SequentialRefine(Tail(ctxs), w.pos, count, mutation, better)

SequentialMerged ==
    Merged(Source.random,
           SequentialRefine(Unwrap(Decomposed), 0, repeat_count, inner_mutation, improves))

C5_InterleavingIndependent ==
    MergeDone => Returned = SequentialMerged

(* C6: scenario S3.  Routes A, B, C with B the only neighbour of A and of  *)
(* C, nothing required or unassigned.                                      *)
S3Input ==
    /\ ranked # None
    /\ Len(Source.routes) = 3
    /\ Source.required = <<>> /\ Source.unassigned = {}
    /\ transport = "chain"

(* C6 as stated: the groups are {A,B} then {C}, two contexts are refined   *)
(* and merged, and the merged registry has the actors of A, B, C in use.   *)
C6_Original ==
    (S3Input /\ pc = "done") =>
        /\ Unwrap(created).groups = <<{0, 1}, {2}>>
        /\ path = "decomposed" /\ Len(contexts) = 2
        /\ Returned.registry.used = {0, 1, 2}

(* C6 amended: every group formed holds all three routes (an absent        *)
(* distance is sorted last, not left out); with debug assertions evaluated *)
(* it is the only group and mutate_one falls back to the inner mutation;   *)
(* a merge that follows no inner mutation step has exactly the actors of   *)
(* A, B, C in use.                                                         *)
C6_S3Grouping ==
    (S3Input /\ pc = "done") =>
        /\ Len(Unwrap(created).groups) >= 1
        /\ \A k \in DOMAIN Unwrap(created).groups : Unwrap(created).groups[k] = {0, 1, 2}
        /\ build = "debug" => (Len(Unwrap(created).groups) = 1 /\ path = "fallback")
        /\ (path = "decomposed" /\ repeat_count = 0) => Returned.registry.used = {0, 1, 2}

C6_Witness ==
    /\ S3Input /\ pc = "done" /\ build = "debug"
    /\ path = "fallback"
    /\ Unwrap(created).groups = <<{0, 1, 2}>>

(* C7: scenario S2.                                                        *)
FallbackResult ==
    /\ path = "fallback"
    /\ contexts = <<>>
    /\ handed # None
    /\ result = Some(InnerMutateOne(inner_mutation, Unwrap(handed), Draw(0)))

(* C7 as stated: for every individual with exactly one route mutate_one    *)
(* returns the result of the inner mutation, without refinement and merge. *)
C7_Original ==
    (pc = "done" /\ ranked # None /\ Len(Source.routes) = 1) => FallbackResult

(* C7 amended: ... for every individual with exactly one route and with    *)
(* nothing required and nothing unassigned.                                *)
C7_OneRouteNoOp ==
    (/\ pc = "done" /\ ranked # None /\ Len(Source.routes) = 1
     /\ Source.required = <<>> /\ Source.unassigned = {})
        => (FallbackResult /\ Len(Unwrap(created).individuals) = 1)

C7_Witness ==
    /\ pc = "done" /\ ranked # None /\ Len(Source.routes) = 1
    /\ Source.required = <<>> /\ Source.unassigned = {}
    /\ path = "fallback"

(* C8: the carrier of required and unassigned jobs.                        *)
HasCarrier(src) == src.required # <<>> \/ src.unassigned # {}

CarrierShape ==
    created # None =>
        LET groups == Unwrap(created).groups
            individuals == Unwrap(created).individuals
            k == Len(groups)
        IN /\ Len(individuals) = k + (IF HasCarrier(Source) THEN 1 ELSE 0)
           /\ \A i \in 1 .. k :
                 /\ Len(individuals[i].routes) > 0
                 /\ individuals[i].required = <<>>
                 /\ individuals[i].unassigned = {}
           /\ HasCarrier(Source) =>
                 /\ individuals[k + 1].routes = <<>>
                 /\ individuals[k + 1].required = Source.required
                 /\ individuals[k + 1].unassigned = Source.unassigned

(* C8 as stated: a required job that no inner mutation placed in a route   *)
(* is in the merged required list exactly once.                            *)
C8_Original ==
    /\ CarrierShape
    /\ MergeDone =>
          \A j \in Range(Source.required) :
              j \notin Served(Returned) => Count(Returned.required, j) = 1

(* C8 amended: a required job that no inner mutation placed in a route or  *)
(* recorded as unassigned is in the merged required list exactly once.     *)
C8_UnassignedCarrier ==
    /\ CarrierShape
    /\ MergeDone =>
          \A j \in Range(Source.required) :
              (j \notin Served(Returned) /\ j \notin Returned.unassigned)
                  => Count(Returned.required, j) = 1

C8_Witness ==
    /\ MergeDone
    /\ repeat_count > 0
    /\ Len(Unwrap(created).groups) >= 2
    /\ JobR \in Range(Source.required)
    /\ Count(Returned.required, JobR) = 1

-----------------------------------------------------------------------------
(* Properties of the seeding.                                              *)

Seeding == spc \in {"provided", "builders", "seeded"}

(* C9: scenario S5.  Once the quota is reached with the 2nd individual     *)
(* just added (initial.size > 2), no initial builder is run any more and   *)
(* the population stays at size 2.                                         *)
C9_QuotaStopsBuilders ==
    [][(Seeding /\ quota = "reached" /\ initial_size > 2 /\ PopulationSize(population) = 2)
          => (builder_runs' = builder_runs /\ PopulationSize(population') = 2)]_vars

(* C10: monotone seeding.  should_add_solution is true on an empty         *)
(* population in every quota state, it is false exactly on a population    *)
(* that is not empty with a quota that is present and reached, and during  *)
(* seeding such a population receives no individual.                       *)
C10_MonotoneSeeding ==
    [][/\ PopulationSize(population) = 0 => should_add_solution(quota, population)
       /\ ~should_add_solution(quota, population)
             <=> (PopulationSize(population) > 0 /\ quota # "absent" /\ quota = "reached")
       /\ (Seeding /\ quota = "reached" /\ PopulationSize(population) > 0)
             => population' = population]_vars

(* an individual was skipped on a reached quota after the population got   *)
(* its first individual although the quota was already reached             *)
C10_Witness ==
    /\ quota = "reached"
    /\ PopulationSize(population) = 1
    /\ \E i \in DOMAIN events : events[i].kind = "skip_provided"
    /\ \E i \in DOMAIN events : events[i].kind = "skip_built"
    /\ spc = "strategy"

(* C11: a configuration without population variation makes the engine      *)
(* refuse to start with an Err of new or of run: the simulator never       *)
(* aborts, builds no individual and seeds nothing.                         *)
C11_MissingVariationIsErr ==
    ~variation =>
        /\ spc \in {"new", "created", "err"}
        /\ builder_runs = 0
        /\ population = <<>>

(* C12: fail-fast construction.  new returns Err exactly when the list of  *)
(* initial methods is empty, and after the Err nothing more happens: no    *)
(* call was made and none is made.                                         *)
C12_FailFastNew ==
    [][/\ spc = "new" => (spc' = "err" <=> methods = 0)
       /\ spc = "err" => (events = <<>> /\ builder_runs = 0 /\ population = <<>>)
       /\ spc # "err"]_vars

(* new has returned the Err of an empty list of initial methods            *)
C12_Witness ==
    /\ spc = "err"
    /\ methods = 0
    /\ events = <<>>

(* Where the call log holds a call of the given kinds.                     *)
CallsOf(kinds) == {i \in DOMAIN events : events[i].kind \in kinds}

(* C15: the seeding event.  create_refinement_ctx tells telemetry          *)
(* on_generation, followed by the population's on_generation, exactly once *)
(* with is_improved = true and after every addition, if and only if the    *)
(* seeded population is not empty; an empty population gets the log line   *)
(* only.  Nothing is told before the seeding is over.                      *)
C15_SeedingEvent ==
    LET told == CallsOf({"telemetry_on_generation"})
        n == Len(events)
    IN /\ spc # "strategy" => CallsOf({"telemetry_on_generation", "population_on_generation",
                                       "log_empty"}) = {}
       /\ (spc = "strategy" /\ PopulationSize(population) > 0) =>
              /\ told = {n - 1}
              /\ events[n - 1].idx = 1
              /\ CallsOf({"population_on_generation"}) = {n}
              /\ CallsOf({"log_empty"}) = {}
       /\ (spc = "strategy" /\ PopulationSize(population) = 0) =>
              /\ told = {}
              /\ CallsOf({"population_on_generation"}) = {}
              /\ CallsOf({"log_empty"}) = {n}

(* the event of a population seeded from a provided and a built individual *)
C15_Witness ==
    /\ spc = "strategy"
    /\ PopulationSize(population) = 2
    /\ CallsOf({"add_provided"}) # {} /\ CallsOf({"add_built"}) # {}
    /\ CallsOf({"telemetry_on_generation"}) # {}

(* C20: seeding order and bounds.  Only the first initial.size provided    *)
(* individuals are offered, in their order and before any builder runs;    *)
(* the builders run at most initial.size minus the number of provided      *)
(* individuals added times, each after a poll of the termination that      *)
(* answered false and on a fresh copy of the empty context; after a poll   *)
(* that answered true no builder runs and nothing is added.                *)
Offered == CallsOf({"add_provided", "skip_provided"})
BuilderCalls == CallsOf({"is_termination", "weighted", "deep_copy", "builder_run"})

C20_SeedingOrder ==
    /\ Cardinality(Offered) <= initial_size
    /\ Cardinality(Offered) <= provided
    /\ \A i \in Offered : events[i].idx = Cardinality({j \in Offered : j < i})
    /\ \A i \in Offered : \A j \in BuilderCalls : i < j
    /\ builder_runs = Cardinality(CallsOf({"builder_run"}))
    /\ builder_runs <= Max(initial_size - Cardinality(CallsOf({"add_provided"})), 0)
    /\ \A i \in CallsOf({"builder_run"}) :
          /\ i > 3
          /\ events[i - 3] = Call("is_termination", 0)
          /\ events[i - 1] = Call("deep_copy", events[i].idx)
    /\ \A i \in CallsOf({"is_termination"}) :
          events[i].idx = 1 =>
              \A j \in CallsOf({"builder_run", "add_built", "add_provided", "is_termination"}) :
                  j <= i

(* more individuals were provided than initial.size, one of the visited    *)
(* ones was skipped, a builder ran and a later poll ended the seeding      *)
C20_Witness ==
    /\ provided > initial_size
    /\ CallsOf({"skip_provided"}) # {}
    /\ CallsOf({"builder_run"}) # {}
    /\ \E i \in CallsOf({"is_termination"}) : events[i].idx = 1
    /\ spc = "strategy"

-----------------------------------------------------------------------------
(* Further properties of DecomposeSearch.                                  *)

(* C17: actor uniqueness after the merge.  The source has every actor in   *)
(* at most one route and the inner mutation opens routes for available     *)
(* actors only; the merged individual has every actor in at most one       *)
(* route.                                                                  *)
ActorsUnique(ind) ==
    \A i \in DOMAIN ind.routes : \A j \in DOMAIN ind.routes :
        ind.routes[i].actor = ind.routes[j].actor => i = j

C17_ActorUniqueness ==
    (MergeDone /\ ActorsUnique(Source)) => ActorsUnique(Returned)

(* C18: the fallback of mutate_one.                                        *)
FallbackCase ==
    /\ pc = "done"
    /\ \/ ranked = None
       \/ Len(Source.routes) = 0
       \/ Len(Unwrap(created).individuals) <= 1

InnerOnce(individual) ==
    /\ path = "fallback"
    /\ contexts = <<>>
    /\ rnd[individual.random] = 1
    /\ result = Some(InnerMutateOne(inner_mutation, individual, Draw(0)))

(* C18 as stated: without a ranked individual, without routes or with at   *)
(* most one context the inner mutation runs once, on the top ranked        *)
(* individual that was considered for decomposition, and its result is     *)
(* returned without refinement and merge.                                  *)
C18_Original ==
    FallbackCase =>
        /\ handed # None
        /\ InnerOnce(Unwrap(handed))
        /\ ranked # None => handed = ranked

(* C18 amended: ... the inner mutation runs once, on the individual        *)
(* mutate_one was called with, whether or not it is the top ranked one.    *)
C18_FallbackOnProvided ==
    FallbackCase =>
        /\ handed = Some(insertion_ctx)
        /\ InnerOnce(insertion_ctx)

(* the fallback on an individual that is not the top ranked one, taken     *)
(* because the grouping left a single context                              *)
C18_Witness ==
    /\ FallbackCase
    /\ ranked # None
    /\ Len(Source.routes) = 3
    /\ insertion_ctx # Source
    /\ handed = Some(insertion_ctx)

(* C19: neighbour ordering.  For every route the list of the other routes  *)
(* has the present distances first and ascending, the absent ones last,    *)
(* and routes of equal distance (or both absent) in index order; the       *)
(* distance is absent exactly for a negative transport distance or a       *)
(* missing medoid.  Looked at when mutate_one has returned.                *)
Medoids(individual, tr) ==
    [i \in DOMAIN individual.routes |-> get_medoid(individual.routes[i], tr)]

Ordered(list) ==
    \A p \in DOMAIN list : \A q \in DOMAIN list :
        p < q =>
            /\ (list[p].distance # None /\ list[q].distance # None)
                  => Unwrap(list[p].distance) <= Unwrap(list[q].distance)
            /\ list[p].distance = None => list[q].distance = None
            /\ list[p].distance = list[q].distance => list[p].idx < list[q].idx

Represented(medoids, outer_idx, list, tr) ==
    /\ {list[p].idx : p \in DOMAIN list} = (0 .. (Len(medoids) - 1)) \ {outer_idx}
    /\ Len(list) = Len(medoids) - 1
    /\ \A p \in DOMAIN list :
          LET d == Distance(tr, Unwrap(medoids[outer_idx + 1]), Unwrap(medoids[list[p].idx + 1]))
          IN list[p].distance = IF d < 0 THEN None ELSE Some(d)

MissingMedoidIsAbsent(tr) ==
    \A l \in Locations :
        /\ MedoidDistance(None, Some(l), tr) = None
        /\ MedoidDistance(Some(l), None, tr) = None
        /\ MedoidDistance(None, None, tr) = None

-----------------------------------------------------------------------------
(* Properties of get_medoid.                                               *)

(* The reference: a negative distance counts 0; a location all of whose    *)
(* distances to the other locations of the route are negative is           *)
(* unreachable and no candidate; the medoid is the first candidate of the  *)
(* least sum, absent without a candidate.                                  *)
Clamp(d) == IF d < 0 THEN 0 ELSE d

Unreachable(locations, i, distance) ==
    /\ \E j \in DOMAIN locations : locations[j] # locations[i]
    /\ \A j \in DOMAIN locations :
          locations[j] # locations[i] => distance[locations[i]][locations[j]] < 0

ReferenceMedoid(locations, distance) ==
    LET candidates == {i \in DOMAIN locations : ~Unreachable(locations, i, distance)}
        sum == [i \in DOMAIN locations |->
                   Sum([j \in DOMAIN locations |->
                           Clamp(distance[locations[i]][locations[j]])],
                       DOMAIN locations)]
    IN IF candidates = {} THEN None
       ELSE LET best == CHOOSE i \in candidates :
                            /\ \A j \in candidates : sum[i] <= sum[j]
                            /\ \A j \in candidates : j < i => sum[j] > sum[i]
            IN Some(locations[best])

(* C16: get_medoid returns the medoid of the reference: absent for a route *)
(* without activities or without a reachable candidate, else the location  *)
(* of the least sum of distances with negative distances counted as 0; the *)
(* location itself for a route with a single activity location.            *)
C16_MedoidReference ==
    mpc = "returned" =>
        /\ medoid = ReferenceMedoid(route_locations, distance_matrix)
        /\ Len(route_locations) = 1 => medoid = Some(route_locations[1])

-----------------------------------------------------------------------------
(* Properties of the reader.                                               *)

HasNegativeDistance(ms) ==
    \E k \in DOMAIN ms : \E i \in DOMAIN ms[k].distances : ms[k].distances[i] < 0

HasErrorCodes(ms) == \E k \in DOMAIN ms : ms[k].error_codes # None

(* C14: whenever a matrix has a negative distance or carries error codes   *)
(* the pipeline built for the problem holds the reachable module, and the  *)
(* job at the location unreachable from the route is not served but        *)
(* rejected with the code of the reachable module.                         *)
C14_ReachableModule ==
    /\ (rpc \in {"problem", "solved"} /\ (HasNegativeDistance(matrices) \/ HasErrorCodes(matrices)))
          => HasModule(constraint, "reachable")
    /\ (rpc = "solved" /\ MatrixDistance(matrices, 0, 1) < 0)
          => job_result = Some([served |-> FALSE, code |-> REACHABLE_CODE])

-----------------------------------------------------------------------------
(* Properties of the tour with a break.                                    *)

S1Input ==
    /\ plan_tour = <<"job1", "break", "job2">>
    /\ job_duration = 1
    /\ break_duration = 2

(* C13: scenario S1.  The tour departure, job1, break, job2, arrival has   *)
(* the stop times job1 [1..2], break [3..5], job2 [6..7], arrival [9..9]   *)
(* and the statistic cost 26, distance 6, duration 10, driving 6, serving  *)
(* 2, waiting 0, break 2: the stop times and the totals are those of the   *)
(* one schedule of the tour under the matrix.                              *)
C13_BreakScenario ==
    (S1Input /\ tpc = "arrived") =>
        /\ [i \in DOMAIN stops |-> stops[i].name]
              = <<"departure", "job1", "break", "job2", "arrival">>
        /\ statistic = ExpectedStatistic
        /\ stops = ExpectedStops
        /\ ExpectedStops[5].arrival - ExpectedStops[1].departure = ExpectedStatistic.duration

-----------------------------------------------------------------------------
(* Properties of refine_decomposed.                                        *)

RECURSIVE BestRoutes(_)
BestRoutes(ctxs) ==
    IF Len(ctxs) = 0 THEN <<>>
    ELSE GreedyBest(Head(ctxs).population).routes \o BestRoutes(Tail(ctxs))

RECURSIVE BestRequired(_)
BestRequired(ctxs) ==
    IF Len(ctxs) = 0 THEN <<>>
    ELSE GreedyBest(Head(ctxs).population).required \o BestRequired(Tail(ctxs))

(* C21: refinement step count.  Every partition runs exactly repeat_count  *)
(* iterations of select, mutate, add on its own population, whatever the   *)
(* quota and the other partitions do; its population is never empty; the   *)
(* merge happens after every partition has finished and takes the          *)
(* partitions in the order of their creation.                              *)
C21_RefinementSteps ==
    path = "decomposed" =>
        /\ Len(contexts) = Len(Unwrap(created).individuals)
        /\ \A p \in DOMAIN contexts :
              /\ PopulationSize(contexts[p].population) >= 1
              /\ contexts[p].finished => contexts[p].iter = repeat_count
              /\ ~contexts[p].finished =>
                    /\ contexts[p].iter = 0
                    /\ contexts[p].population
                          = create_population(Unwrap(created).individuals[p])
        /\ pc = "done" =>
              /\ \A p \in DOMAIN contexts : contexts[p].finished
              /\ Returned.routes = BestRoutes(contexts)
              /\ Returned.required = BestRequired(contexts)

(* the merge of three partitions that each ran two or more iterations      *)
(* under a reached quota                                                   *)
C21_Witness ==
    /\ MergeDone
    /\ refinement_quota = "reached"
    /\ repeat_count >= 2
    /\ Len(contexts) >= 3
    /\ \A p \in DOMAIN contexts : contexts[p].iter = repeat_count

====
